---- MODULE Spec2Model ----
(***************************************************************************)
(* A model of api/index.py: the bounty value extractor, the scraper's      *)
(* assembly of bounty records, the Slack notifier and the manual / cron    *)
(* trigger with its process-lifetime dedup set.                            *)
(*                                                                         *)
(* Texts are sequences of one-character strings.  Amounts are exact        *)
(* decimals [n, d] standing for n / 10^d with trailing zeros stripped, so  *)
(* two amounts are equal exactly when their records are equal.             *)
(***************************************************************************)
EXTENDS Integers, Sequences, FiniteSets, Bags, TLC

VARIABLES
    text,           \* extractor harness: the text handed to extract_bounty_value
    extracted,      \* extractor harness: its outcome, or NotRun
    sent_bounties,  \* the module-level dedup set (index.py line 18)
    webhook_url,    \* whether SLACK_WEBHOOK_URL is set in the environment
    clock,          \* datetime.now(), in hours
    resp,           \* the response of the latest request
    posts,          \* number of webhook POSTs attempted so far
    notified,       \* bag of bounty ids whose POST succeeded
    call,           \* filter harness: locals of the latest manual_trigger
    scraped,        \* filter harness: the list the scrape is taken to return
    hosting,        \* "serialized" or "concurrent" request handling
    pc,             \* per worker: where it stands in manual_trigger
    pending         \* per worker: the bounty it carries past the dedup check

vars == <<text, extracted, sent_bounties, webhook_url, clock, resp, posts,
          notified, call, scraped, hosting, pc, pending>>

(***************************************************************************)
(* Bounds of the model.                                                    *)
(***************************************************************************)
MaxLen == 4

MaxRequests == 3

MaxList == 2

(***************************************************************************)
(* Characters and character classes used by the regular expressions.       *)
(***************************************************************************)
Digits == {"0", "1", "2", "3", "4", "5", "6", "7", "8", "9"}

DigitVal == ("0" :> 0) @@ ("1" :> 1) @@ ("2" :> 2) @@ ("3" :> 3) @@ ("4" :> 4)
            @@ ("5" :> 5) @@ ("6" :> 6) @@ ("7" :> 7) @@ ("8" :> 8) @@ ("9" :> 9)

UpperToLower ==
    ("A" :> "a") @@ ("B" :> "b") @@ ("C" :> "c") @@ ("D" :> "d") @@ ("E" :> "e")
    @@ ("F" :> "f") @@ ("G" :> "g") @@ ("H" :> "h") @@ ("I" :> "i") @@ ("J" :> "j")
    @@ ("K" :> "k") @@ ("L" :> "l") @@ ("M" :> "m") @@ ("N" :> "n") @@ ("O" :> "o")
    @@ ("P" :> "p") @@ ("Q" :> "q") @@ ("R" :> "r") @@ ("S" :> "s") @@ ("T" :> "t")
    @@ ("U" :> "u") @@ ("V" :> "v") @@ ("W" :> "w") @@ ("X" :> "x") @@ ("Y" :> "y")
    @@ ("Z" :> "z")

\* str.lower() on one character, and the case folding of re.IGNORECASE
Lower(c) == IF c \in DOMAIN UpperToLower THEN UpperToLower[c] ELSE c

IsDigit(c) == c \in Digits

IsSpace(c) == c \in {" ", "\t", "\n"}

\* the character at position i, "" past either end of the text
At(t, i) == IF i \in 1..Len(t) THEN t[i] ELSE ""

(***************************************************************************)
(* The three monetary patterns.  Each XxxEnd gives the position just after *)
(* the greedy match of a sub-pattern that starts at the given position.    *)
(* In all three patterns a shorter (backtracked) amount is followed by a   *)
(* digit, a comma or a dot, which no continuation accepts, so the greedy   *)
(* amount decides whether the pattern matches at a position.               *)
(***************************************************************************)
RECURSIVE DigitsEnd(_, _)
\* \d+  (the caller checks that position i holds a digit)
DigitsEnd(t, i) == IF IsDigit(At(t, i)) THEN DigitsEnd(t, i + 1) ELSE i

RECURSIVE CommaGroupsEnd(_, _)
\* (?:,\d{3})*
CommaGroupsEnd(t, i) ==
    IF At(t, i) = "," /\ IsDigit(At(t, i + 1)) /\ IsDigit(At(t, i + 2))
                      /\ IsDigit(At(t, i + 3))
    THEN CommaGroupsEnd(t, i + 4)
    ELSE i

\* (?:\.\d{2})?
CentsEnd(t, i) ==
    IF At(t, i) = "." /\ IsDigit(At(t, i + 1)) /\ IsDigit(At(t, i + 2))
    THEN i + 3
    ELSE i

\* \d+(?:,\d{3})*(?:\.\d{2})?
AmountEnd(t, i) == CentsEnd(t, CommaGroupsEnd(t, DigitsEnd(t, i)))

\* (?:\.\d+)?
FractionEnd(t, i) ==
    IF At(t, i) = "." /\ IsDigit(At(t, i + 1)) THEN DigitsEnd(t, i + 1) ELSE i

RECURSIVE SpacesEnd(_, _)
\* \s*
SpacesEnd(t, i) == IF IsSpace(At(t, i)) THEN SpacesEnd(t, i + 1) ELSE i

\* a literal word at position i, letters compared case-insensitively
LiteralAt(t, i, word) ==
    \A j \in 1..Len(word) : Lower(At(t, i + j - 1)) = word[j]

\* (?:USD|dollars?) at position i
UnitAt(t, i) == \/ LiteralAt(t, i, <<"u", "s", "d">>)
                \/ LiteralAt(t, i, <<"d", "o", "l", "l", "a", "r">>)

NoMatch == [found |-> FALSE, group |-> <<>>]

\* r'\$(\d+(?:,\d{3})*(?:\.\d{2})?)' tried at position i
PrefixedAt(t, i) ==
    IF At(t, i) = "$" /\ IsDigit(At(t, i + 1))
    THEN [found |-> TRUE, group |-> SubSeq(t, i + 1, AmountEnd(t, i + 1) - 1)]
    ELSE NoMatch

\* [kK] at position e, after a number that starts at i + 1
KSuffixAt(t, i, e) ==
    IF Lower(At(t, e)) = "k"
    THEN [found |-> TRUE, group |-> SubSeq(t, i + 1, e - 1)]
    ELSE NoMatch

\* r'\$(\d+(?:\.\d+)?)[kK]' tried at position i
KSuffixedAt(t, i) ==
    IF At(t, i) = "$" /\ IsDigit(At(t, i + 1))
    THEN KSuffixAt(t, i, FractionEnd(t, DigitsEnd(t, i + 1)))
    ELSE NoMatch

\* \s*(?:USD|dollars?) at position e, after an amount that starts at i
UnitSuffixAt(t, i, e) ==
    IF UnitAt(t, SpacesEnd(t, e))
    THEN [found |-> TRUE, group |-> SubSeq(t, i, e - 1)]
    ELSE NoMatch

\* r'(\d+(?:,\d{3})*(?:\.\d{2})?)\s*(?:USD|dollars?)' tried at position i
UnitSuffixedAt(t, i) ==
    IF IsDigit(At(t, i)) THEN UnitSuffixAt(t, i, AmountEnd(t, i)) ELSE NoMatch

\* pattern number p of the list, tried at position i
PatternAt(p, t, i) ==
    CASE p = 1 -> PrefixedAt(t, i)
      [] p = 2 -> KSuffixedAt(t, i)
      [] OTHER -> UnitSuffixedAt(t, i)

\* the leftmost of the matches found at the positions of a text
LeftmostMatch(at) ==
    LET hits == {i \in DOMAIN at : at[i].found}
    IN  IF hits = {} THEN NoMatch
        ELSE at[CHOOSE i \in hits : \A j \in hits : i <= j]

patterns_ksuffix_first == <<2, 1, 3>>

\* the order in which extract_bounty_value tries its patterns
patterns == <<1, 2, 3>>

\* re.findall(pattern, text, re.IGNORECASE) reduced to matches[0]: the group of
\* the leftmost match, found = FALSE when the list of matches is empty
FindFirst(p, t) == LeftmostMatch([i \in 1..Len(t) |-> PatternAt(p, t, i)])

(***************************************************************************)
(* float() on the captured group.                                          *)
(***************************************************************************)
StripCommas_kept(s) == s

\* matches[0].replace(',', '')
StripCommas(s) == SelectSeq(s, LAMBDA c : c # ",")

\* does float(s) succeed (FALSE: it raises ValueError)
FloatOk(s) ==
    /\ \A i \in 1..Len(s) : IsDigit(s[i]) \/ s[i] = "."
    /\ Cardinality({i \in 1..Len(s) : s[i] = "."}) <= 1
    /\ \E i \in 1..Len(s) : IsDigit(s[i])

RECURSIVE DigitsValue(_)
DigitsValue(s) ==
    IF s = <<>> THEN 0
    ELSE 10 * DigitsValue(SubSeq(s, 1, Len(s) - 1)) + DigitVal[s[Len(s)]]

RECURSIVE Normalize(_)
\* the canonical record of the amount n / 10^d
Normalize(v) ==
    IF v.d > 0 /\ v.n % 10 = 0 THEN Normalize([n |-> v.n \div 10, d |-> v.d - 1])
    ELSE v

\* the number of digits after the decimal point of s
Decimals(s) ==
    IF \E i \in 1..Len(s) : s[i] = "."
    THEN Len(s) - (CHOOSE i \in 1..Len(s) : s[i] = ".")
    ELSE 0

\* float(s) for a string float() accepts
ToFloat(s) ==
    Normalize([n |-> DigitsValue(SelectSeq(s, LAMBDA c : c # ".")),
               d |-> Decimals(s)])

Amount(units) == [n |-> units, d |-> 0]

\* value *= 1000
Times1000(v) == Normalize([n |-> v.n * 1000, d |-> v.d])

\* 'k' in text.lower() or 'K' in text
HasK(t) == \/ \E i \in 1..Len(t) : Lower(t[i]) = "k"
           \/ \E i \in 1..Len(t) : t[i] = "K"

RECURSIVE ExtractFrom(_, _)

\* lines 36-43: float(value_str) and the scaling; ValueError moves on to the
\* next pattern
ParseValue(t, k, value_str) ==
    IF FloatOk(value_str)
    THEN [raised |-> FALSE,
          value  |-> IF HasK(t) THEN Times1000(ToFloat(value_str))
                     ELSE ToFloat(value_str)]
    ELSE ExtractFrom(t, k + 1)

\* lines 34-35: if matches: value_str = matches[0].replace(',', '')
TakeMatch(t, k, m) ==
    IF m.found THEN ParseValue(t, k, StripCommas(m.group))
    ELSE ExtractFrom(t, k + 1)

\* the loop over patterns, from the k-th pattern of the list on
ExtractFrom(t, k) ==
    IF k > Len(patterns) THEN [raised |-> FALSE, value |-> Amount(0)]
    ELSE TakeMatch(t, k, FindFirst(patterns[k], t))

extract_bounty_value(t) ==
    IF t = <<>> THEN [raised |-> FALSE, value |-> Amount(0)]
    ELSE ExtractFrom(t, 1)

(***************************************************************************)
(* Harness for the extractor: every text over Alphabet up to MaxLen        *)
(* characters, and a list of longer texts in the notations the patterns    *)
(* are written for.                                                        *)
(***************************************************************************)
Alphabet == {"$", "1", "0", ",", ".", "k", " ", "U", "S", "D"}

ExampleTexts ==
    { <<"$", "1", ",", "5", "0", "0", ".", "0", "0">>,
      <<"$", "2", "k">>,
      <<"$", "1", ".", "5", "k">>,
      <<"$", "2", "K">>,
      <<"$", "5", "0", "0", " ", "o", "k">>,
      <<"5", "0", "0", " ", "U", "S", "D">>,
      <<"1", ",", "0", "0", "0", " ", "u", "s", "d">>,
      <<"2", " ", "d", "o", "l", "l", "a", "r", "s">>,
      <<"7", "5", " ", "D", "o", "l", "l", "a", "r">>,
      <<"1", ",", "5", "0", " ", "U", "S", "D">>,
      <<"$", "1", ",", "5", "0", "0", "0">>,
      <<"$", "3", ".", "2", "5", "0", "k">>,
      <<"b", "o", "u", "n", "t", "y">>,
      <<"$", ",", "5">> }

Texts == UNION {[1..m -> Alphabet] : m \in 0..MaxLen} \cup ExampleTexts

NotRun == [raised |-> FALSE, value |-> [n |-> -1, d |-> 0]]

(***************************************************************************)
(* Bounty records.  A title is a sequence of strings: the characters of a  *)
(* page line, or one string for a fixed or link title.  created_at is the  *)
(* string's format and the instant it denotes, in hours:                   *)
(*   "iso"  a naive ISO timestamp, as datetime.now().isoformat() writes;   *)
(*   "isoZ" an ISO timestamp with a trailing Z (UTC);                      *)
(*   "bad"  a string datetime.fromisoformat rejects.                       *)
(***************************************************************************)
HoursThreshold == 24

SampleLimit == 5

MinLineLen == 20

TitleLimit == 100

RECURSIVE Pow10(_)
Pow10(k) == IF k = 0 THEN 1 ELSE 10 * Pow10(k - 1)

\* a < b on amounts
ValueLess(a, b) == a.n * Pow10(b.d) < b.n * Pow10(a.d)

\* datetime.now().isoformat()
IsoNow(now) == [fmt |-> "iso", t |-> now]

Bounty(title, value, now, source) ==
    [title |-> title, value |-> value, created_at |-> IsoNow(now), source |-> source]

(***************************************************************************)
(* scrape_replit_bounties.  The fetched page is given by what lines 67-102 *)
(* take from it: the list all_prices, the texts of the bounty links, and   *)
(* the stripped lines of the page text.                                    *)
(***************************************************************************)
Min(a, b) == IF a < b THEN a ELSE b

IndexTitle == <<"1", "2", "3", "4", "5">>

\* lines 105-124: one record per price, at most SampleLimit of them
SampleBounties(page, now) ==
    [i \in 1..Min(Len(page.prices), SampleLimit) |->
        Bounty(IF i <= Len(page.links) /\ page.links[i] # <<>>
               THEN page.links[i]
               ELSE <<"Replit Bounty #", IndexTitle[i]>>,
               page.prices[i], now, "price_detection")]

\* a word occurring in a line
Contains(line, word) ==
    \E i \in 1..Len(line) : \A j \in 1..Len(word) : At(line, i + j - 1) = word[j]

LowerText(t) == [i \in 1..Len(t) |-> Lower(t[i])]

\* the line test, which the file holds in two pieces (the end of line 130
\* and line 317): len(line) > 20 and ('$' in line or 'bounty' in line.lower())
LooksLikeBounty(line) ==
    /\ Len(line) > MinLineLen
    /\ \/ Contains(line, <<"$">>)
       \/ Contains(LowerText(line), <<"b", "o", "u", "n", "t", "y">>)

\* lines 318-327: the records of the valued lines that carry a positive value
LineBounties(valued, now) ==
    LET kept == SelectSeq(valued, LAMBDA v : v.value.n > 0)
    IN  [i \in 1..Len(kept) |->
            Bounty(SubSeq(kept[i].line, 1, Min(Len(kept[i].line), TitleLimit)),
                   kept[i].value, now, "text_parsing")]

\* line 318: value = extract_bounty_value(line), for each of the lines
ValuedLines(lines) ==
    [i \in 1..Len(lines) |->
        [line |-> lines[i], value |-> extract_bounty_value(lines[i]).value]]

\* lines 127-130, 317-327: the records of the lines that look like a bounty
TextBounties(page, now) ==
    LineBounties(ValuedLines(SelectSeq(page.lines, LooksLikeBounty)), now)

DemoBounty(now) ==
    Bounty(<<"Demo: Build a React Dashboard">>, Amount(750), now, "demo")

FallbackBounty(now) ==
    Bounty(<<"Demo: API Integration Project">>, Amount(500), now, "fallback")

RECURSIVE InsertByValue(_, _)
\* b placed after every record of the descending list s whose value is >= b's
InsertByValue(s, b) ==
    IF s = <<>> THEN <<b>>
    ELSE IF ValueLess(Head(s).value, b.value) THEN <<b>> \o s
         ELSE <<Head(s)>> \o InsertByValue(Tail(s), b)

RECURSIVE SortByValueDesc(_)
\* bounties.sort(key=lambda x: x['value'], reverse=True): stable
SortByValueDesc(s) ==
    IF s = <<>> THEN <<>>
    ELSE InsertByValue(SortByValueDesc(SubSeq(s, 1, Len(s) - 1)), s[Len(s)])

\* lines 329-339: if not bounties: append the demo bounty
OrDemo(found, now) == IF found = <<>> THEN <<DemoBounty(now)>> ELSE found

\* the try block, lines 49-345, for a page that was fetched and parsed
ScrapePage(page, now) ==
    SortByValueDesc(OrDemo(SampleBounties(page, now) \o TextBounties(page, now), now))

\* lines 347-357: what the except clause turns a failure into
ScrapeFailure_propagates(now) == [raised |-> TRUE, value |-> <<>>]

ScrapeFailure(now) == [raised |-> FALSE, value |-> <<FallbackBounty(now)>>]

\* fetched.ok: requests.get and the parse went through and gave fetched.page;
\* otherwise one of them raised inside the try block
scrape_replit_bounties(fetched, now) ==
    IF fetched.ok THEN [raised |-> FALSE, value |-> ScrapePage(fetched.page, now)]
    ELSE ScrapeFailure(now)

(***************************************************************************)
(* manual_trigger, piece by piece.                                         *)
(***************************************************************************)
\* datetime.fromisoformat(created_at.replace('Z', '+00:00'))
ParseCreatedAt(c) ==
    [raised |-> c.fmt = "bad", aware |-> c.fmt = "isoZ", t |-> c.t]

DropOnDateError(b) == FALSE

\* lines 472-474: the bare except appends the record
KeepOnDateError(b) == TRUE

\* lines 468-474 for one record; cutoff_time is naive, and comparing an
\* aware datetime with it raises TypeError inside the try
KeepRecent(b, cutoff) ==
    IF ParseCreatedAt(b.created_at).raised \/ ParseCreatedAt(b.created_at).aware
    THEN KeepOnDateError(b)
    ELSE ParseCreatedAt(b.created_at).t > cutoff

\* lines 464-474
RecentFilter(bounties, now) ==
    SelectSeq(bounties, LAMBDA b : KeepRecent(b, now - HoursThreshold))

Better_or_equal(best, b) == IF ValueLess(b.value, best.value) THEN best ELSE b

\* max() keeps the best so far unless the next record's value is strictly greater
Better(best, b) == IF ValueLess(best.value, b.value) THEN b ELSE best

RECURSIVE MaxByValue(_)
\* max(recent_bounties, key=lambda x: x['value'])
MaxByValue(s) ==
    IF Len(s) = 1 THEN s[1]
    ELSE Better(MaxByValue(SubSeq(s, 1, Len(s) - 1)), s[Len(s)])

\* f"{highest_bounty['title']}-{highest_bounty['value']}"
bounty_id(b) == <<b.title, b.value>>

AlreadySent_never(id, sent) == FALSE

\* bounty_id in sent_bounties
AlreadySent(id, sent) == id \in sent

send_slack_notification_unguarded(b, hook, post) ==
    [ok |-> post = "ok", posts |-> 1]

\* hook: SLACK_WEBHOOK_URL is set; post: "ok" when requests.post and
\* raise_for_status go through, "failed" when either raises
send_slack_notification(b, hook, post) ==
    IF ~hook THEN [ok |-> FALSE, posts |-> 0]
    ELSE [ok |-> post = "ok", posts |-> 1]

NoBounty == [title |-> <<>>, value |-> Amount(0),
             created_at |-> [fmt |-> "bad", t |-> 0], source |-> "none"]

\* a JSON response: its "status", the HTTP status code and its "bounty"
Response(endpoint, status, http, bounty) ==
    [endpoint |-> endpoint, status |-> status, http |-> http, bounty |-> bounty]

\* a call that has returned before notifying
Returned(status, http, recent, highest) ==
    [step |-> "return", status |-> status, http |-> http,
     recent |-> recent, highest |-> highest]

\* lines 487-495: the dedup check
Dedup(recent, highest, sent) ==
    IF AlreadySent(bounty_id(highest), sent)
    THEN Returned("already_sent", 200, recent, highest)
    ELSE [step |-> "send", status |-> "", http |-> 0,
          recent |-> recent, highest |-> highest]

\* lines 476-485
SelectHighest(recent, sent) ==
    IF recent = <<>> THEN Returned("no_recent_bounties", 200, recent, NoBounty)
    ELSE Dedup(recent, MaxByValue(recent), sent)

\* lines 454-495: from the scrape to the dedup check.  step = "send" when the
\* call goes on to notify; otherwise it has returned, a scrape that raised
\* through the handler's except clause (lines 515-521)
Select(result, now, sent) ==
    IF result.raised THEN Returned("error", 500, <<>>, NoBounty)
    ELSE IF result.value = <<>> THEN Returned("no_bounties", 200, <<>>, NoBounty)
    ELSE SelectHighest(RecentFilter(result.value, now), sent)

Notified_adds_before_result(endpoint, sel, note, sent) ==
    [resp    |-> Response(endpoint,
                          IF note.ok THEN "success" ELSE "notification_failed",
                          200, sel.highest),
     sent    |-> sent \cup {bounty_id(sel.highest)},
     posts   |-> note.posts,
     ok      |-> note.ok,
     recent  |-> sel.recent,
     highest |-> sel.highest]

Notified_forgets_earlier(endpoint, sel, note, sent) ==
    [resp    |-> Response(endpoint,
                          IF note.ok THEN "success" ELSE "notification_failed",
                          200, sel.highest),
     sent    |-> IF note.ok THEN {bounty_id(sel.highest)} ELSE sent,
     posts   |-> note.posts,
     ok      |-> note.ok,
     recent  |-> sel.recent,
     highest |-> sel.highest]

\* lines 498-513: the response and the effects once the notifier has returned
Notified(endpoint, sel, note, sent) ==
    [resp    |-> Response(endpoint,
                          IF note.ok THEN "success" ELSE "notification_failed",
                          200, sel.highest),
     sent    |-> IF note.ok THEN sent \cup {bounty_id(sel.highest)} ELSE sent,
     posts   |-> note.posts,
     ok      |-> note.ok,
     recent  |-> sel.recent,
     highest |-> sel.highest]

\* the rest of the call after Select
Conclude(endpoint, sel, sent, hook, post) ==
    IF sel.step = "send"
    THEN Notified(endpoint, sel, send_slack_notification(sel.highest, hook, post), sent)
    ELSE [resp    |-> Response(endpoint, sel.status, sel.http, sel.highest),
          sent    |-> sent,
          posts   |-> 0,
          ok      |-> FALSE,
          recent  |-> sel.recent,
          highest |-> sel.highest]

\* lines 453-521 as one call: its response and its effects
Trigger(endpoint, result, now, sent, hook, post) ==
    Conclude(endpoint, Select(result, now, sent), sent, hook, post)

(***************************************************************************)
(* The pages the scrape may meet, and the state after the module is loaded.*)
(***************************************************************************)
PriceLists ==
    { <<>>, <<Amount(500), Amount(750)>>, <<Amount(500), Amount(500)>> }

LinkLists == { <<>>, << <<"Fix my Slack bot">> >>, << <<>> >> }

LineLanding == <<"B", "u", "i", "l", "d", " ", "a", " ", "l", "a", "n", "d", "i", "n", "g", " ", "p", "a", "g", "e", " ", "$", "5", "0", "0">>

LineSlack == <<"B", "o", "u", "n", "t", "y", " ", "f", "o", "r", " ", "a", " ", "S", "l", "a", "c", "k", " ", "b", "o", "t", " ", "$", "2">>

LineListing == <<"A", "l", "l", " ", "b", "o", "u", "n", "t", "y", " ", "p", "o", "s", "t", "s", " ", "a", "r", "e", " ", "l", "i", "s", "t", "e", "d", " ", "h", "e", "r", "e">>

LineShort == <<"P", "a", "y", "s", " ", "$", "9", "0", "0">>

LineLists == { <<>>, <<LineListing, LineShort>>, <<LineLanding, LineSlack>> }

Pages == [prices : PriceLists, links : LinkLists, lines : LineLists]

NoPage == [prices |-> <<>>, links |-> <<>>, lines |-> <<>>]

\* what requests.get and the parse may give: a failure, or one of the pages
Fetches == {[ok |-> FALSE, page |-> NoPage]} \cup {[ok |-> TRUE, page |-> p] : p \in Pages}

PostOutcomes == {"ok", "failed"}

Workers == {"w1", "w2"}

NoResponse == Response("none", "none", 0, NoBounty)

NoCall == [done |-> FALSE, recent |-> <<>>, highest |-> NoBounty]

\* the variables of the request handlers, as the loaded module leaves them
Loaded ==
    /\ sent_bounties = {}
    /\ webhook_url \in BOOLEAN
    /\ resp = NoResponse
    /\ posts = 0
    /\ notified = EmptyBag
    /\ pc = [w \in Workers |-> "idle"]
    /\ pending = [w \in Workers |-> NoBounty]

NoHarness ==
    /\ text = <<>>
    /\ extracted = NotRun
    /\ call = NoCall
    /\ scraped = <<>>

Init ==
    /\ Loaded
    /\ NoHarness
    /\ clock = 0
    /\ hosting = "serialized"

(***************************************************************************)
(* The endpoints, one request at a time.  Each request reads the clock one *)
(* hour after the request before it.                                       *)
(***************************************************************************)
\* home(), lines 424-437
Home ==
    /\ clock < MaxRequests
    /\ clock' = clock + 1
    /\ resp' = Response("home", "active", 200, NoBounty)
    /\ UNCHANGED <<text, extracted, sent_bounties, webhook_url, posts, notified,
                   call, scraped, hosting, pc, pending>>

\* the response of test_scraping(), with the first of the bounties it lists
TestResponse(result) ==
    IF result.raised THEN Response("test", "error", 500, NoBounty)
    ELSE Response("test", "success", 200,
                  IF result.value = <<>> THEN NoBounty ELSE Head(result.value))

\* test_scraping(), lines 439-448
TestScraping ==
    /\ clock < MaxRequests
    /\ clock' = clock + 1
    /\ \E fetched \in Fetches :
          resp' = TestResponse(scrape_replit_bounties(fetched, clock))
    /\ UNCHANGED <<text, extracted, sent_bounties, webhook_url, posts, notified,
                   call, scraped, hosting, pc, pending>>

\* what a finished call leaves behind
Effects(out) ==
    /\ resp' = out.resp
    /\ sent_bounties' = out.sent
    /\ posts' = posts + out.posts
    /\ notified' = IF out.ok
                   THEN notified (+) SetToBag({bounty_id(out.highest)})
                   ELSE notified

\* one whole manual_trigger() call, lines 450-521
TriggerCall(endpoint) ==
    /\ clock < MaxRequests
    /\ clock' = clock + 1
    /\ \E fetched \in Fetches, post \in PostOutcomes :
          Effects(Trigger(endpoint, scrape_replit_bounties(fetched, clock),
                          clock, sent_bounties, webhook_url, post))
    /\ UNCHANGED <<text, extracted, webhook_url, call, scraped, hosting, pc, pending>>

ManualTrigger == TriggerCall("manual")

\* cron_job(), lines 523-527
CronJob == TriggerCall("cron")

Next == Home \/ TestScraping \/ ManualTrigger \/ CronJob

Spec == Init /\ [][Next]_vars

(***************************************************************************)
(* extract_bounty_value applied to one text.                               *)
(***************************************************************************)
InitExtract ==
    /\ Loaded
    /\ text \in Texts
    /\ extracted = NotRun
    /\ call = NoCall
    /\ scraped = <<>>
    /\ clock = 0
    /\ hosting = "serialized"

Extract ==
    /\ extracted = NotRun
    /\ extracted' = extract_bounty_value(text)
    /\ UNCHANGED <<text, sent_bounties, webhook_url, clock, resp, posts, notified,
                   call, scraped, hosting, pc, pending>>

NextExtract == Extract

SpecExtract == InitExtract /\ [][NextExtract]_vars

(***************************************************************************)
(* manual_trigger applied once to a list standing for what the scrape      *)
(* returned: records of any value, in any order, with created_at of every  *)
(* format and age.                                                         *)
(***************************************************************************)
FilterNow == 2 * HoursThreshold

Ages == {1, HoursThreshold - 1, HoursThreshold, HoursThreshold + 1}

CreatedAts ==
    {[fmt |-> f, t |-> FilterNow - a] : f \in {"iso", "isoZ"}, a \in Ages}
    \cup {[fmt |-> "bad", t |-> 0]}

Records ==
    [title : {<<"A">>, <<"B">>}, value : {Amount(100), Amount(200)},
     created_at : CreatedAts, source : {"stub"}]

ScrapedLists == UNION {[1..m -> Records] : m \in 0..MaxList}

InitFilter ==
    /\ Loaded
    /\ text = <<>>
    /\ extracted = NotRun
    /\ call = NoCall
    /\ scraped \in ScrapedLists
    /\ clock = FilterNow
    /\ hosting = "serialized"

\* the locals of the finished call
Locals(out) == [done |-> TRUE, recent |-> out.recent, highest |-> out.highest]

FilterCall ==
    /\ ~call.done
    /\ \E post \in PostOutcomes :
          /\ Effects(Trigger("manual", [raised |-> FALSE, value |-> scraped],
                             clock, sent_bounties, webhook_url, post))
          /\ call' = Locals(Trigger("manual", [raised |-> FALSE, value |-> scraped],
                                    clock, sent_bounties, webhook_url, post))
    /\ UNCHANGED <<text, extracted, webhook_url, clock, scraped, hosting, pc, pending>>

NextFilter == FilterCall

SpecFilter == InitFilter /\ [][NextFilter]_vars

(***************************************************************************)
(* Two workers running manual_trigger in the same process.  A worker can   *)
(* be preempted around the network call of send_slack_notification, so a   *)
(* call is three steps: up to the dedup check, the notification, and the   *)
(* update of sent_bounties with the response.  Under "serialized" hosting  *)
(* a call starts only when no other call is in progress.                   *)
(***************************************************************************)
InitConc ==
    /\ Loaded
    /\ NoHarness
    /\ clock = 0
    /\ hosting \in {"serialized", "concurrent"}

\* the worker's state after Select
Selected(w, sel) ==
    IF sel.step = "send"
    THEN /\ pc' = [pc EXCEPT ![w] = "send"]
         /\ pending' = [pending EXCEPT ![w] = sel.highest]
         /\ resp' = resp
    ELSE /\ pc' = pc
         /\ pending' = pending
         /\ resp' = Response(w, sel.status, sel.http, sel.highest)

\* lines 453-495
Enter(w) ==
    /\ pc[w] = "idle"
    /\ hosting = "serialized" => \A v \in Workers : pc[v] = "idle"
    /\ clock < MaxRequests
    /\ clock' = clock + 1
    /\ \E fetched \in Fetches :
          Selected(w, Select(scrape_replit_bounties(fetched, clock), clock,
                             sent_bounties))
    /\ UNCHANGED <<text, extracted, sent_bounties, webhook_url, posts, notified,
                   call, scraped, hosting>>

\* the worker's state after send_slack_notification
Sent(w, note) ==
    /\ posts' = posts + note.posts
    /\ IF note.ok
       THEN /\ pc' = [pc EXCEPT ![w] = "add"]
            /\ notified' = notified (+) SetToBag({bounty_id(pending[w])})
            /\ UNCHANGED <<resp, pending>>
       ELSE /\ pc' = [pc EXCEPT ![w] = "idle"]
            /\ resp' = Response(w, "notification_failed", 200, pending[w])
            /\ pending' = [pending EXCEPT ![w] = NoBounty]
            /\ UNCHANGED notified

\* line 498
Post(w) ==
    /\ pc[w] = "send"
    /\ \E post \in PostOutcomes :
          Sent(w, send_slack_notification(pending[w], webhook_url, post))
    /\ UNCHANGED <<text, extracted, sent_bounties, webhook_url, clock, call,
                   scraped, hosting>>

\* lines 499-506
Add(w) ==
    /\ pc[w] = "add"
    /\ sent_bounties' = sent_bounties \cup {bounty_id(pending[w])}
    /\ resp' = Response(w, "success", 200, pending[w])
    /\ pc' = [pc EXCEPT ![w] = "idle"]
    /\ pending' = [pending EXCEPT ![w] = NoBounty]
    /\ UNCHANGED <<text, extracted, webhook_url, clock, posts, notified, call,
                   scraped, hosting>>

NextConc == \E w \in Workers : Enter(w) \/ Post(w) \/ Add(w)

SpecConc == InitConc /\ [][NextConc]_vars

(***************************************************************************)
(* Properties.                                                             *)
(***************************************************************************)
Triggers == {"manual", "cron"}

\* the latest request was a manual_trigger / cron_job call
Triggered == resp.endpoint \in Triggers

\* C1: when a manual_trigger or cron_job call notified successfully and the
\* very next call is again a manual_trigger or cron_job call whose highest
\* recent bounty has the same title and value, that call answers
\* "already_sent" and attempts no webhook POST.
C1_SecondCallAlreadySent ==
    [][(/\ Triggered
        /\ resp.status = "success"
        /\ clock' = clock + 1
        /\ resp'.endpoint \in Triggers
        /\ bounty_id(resp'.bounty) = bounty_id(resp.bounty))
       => (resp'.status = "already_sent" /\ posts' = posts)]_vars

\* two calls were made, and the second found the first one's bounty sent
C1_Witness ==
    /\ clock = 2
    /\ Triggered
    /\ resp.status = "already_sent"
    /\ posts = 1
    /\ sent_bounties = {bounty_id(resp.bounty)}

\* C2: sent_bounties changes only in a call that answers "success", by
\* exactly the id of the notified bounty and with one POST made under a
\* configured webhook; every other outcome leaves it unchanged; and after
\* "notification_failed" the next call for the same bounty is not answered
\* "already_sent": it notifies again.
C2_AddedOnlyAfterSuccess ==
    [][/\ sent_bounties' # sent_bounties
          => /\ resp'.endpoint \in Triggers
             /\ resp'.status = "success"
             /\ sent_bounties' = sent_bounties \cup {bounty_id(resp'.bounty)}
             /\ webhook_url
             /\ posts' = posts + 1
             /\ notified' = notified (+) SetToBag({bounty_id(resp'.bounty)})
       /\ (clock' = clock + 1 /\ resp'.status # "success")
          => sent_bounties' = sent_bounties
       /\ (/\ Triggered
           /\ resp.status = "notification_failed"
           /\ clock' = clock + 1
           /\ resp'.endpoint \in Triggers
           /\ bounty_id(resp'.bounty) = bounty_id(resp.bounty))
          => /\ resp'.status \in {"success", "notification_failed"}
             /\ webhook_url => posts' = posts + 1]_vars

\* a failed notification followed by a successful one: two POSTs, one id
C2_Witness ==
    /\ clock = 2
    /\ Triggered
    /\ resp.status = "success"
    /\ posts = 2
    /\ sent_bounties = {bounty_id(resp.bounty)}
    /\ BagCardinality(notified) = 1

\* C3 as stated: without SLACK_WEBHOOK_URL a manual or cron call answers
\* with a 500 response and makes no POST.
C3_ConfigError500 ==
    (~webhook_url /\ Triggered) => (resp.http = 500 /\ posts = 0)

\* C3 as the code has it: without SLACK_WEBHOOK_URL a manual or cron call
\* answers status "notification_failed" with HTTP 200 and makes no POST.
C3_NotificationFailed200 ==
    (~webhook_url /\ Triggered)
    => /\ resp.status = "notification_failed"
       /\ resp.http = 200
       /\ posts = 0

C3_Witness ==
    /\ ~webhook_url
    /\ Triggered
    /\ resp.status = "notification_failed"
    /\ resp.bounty.source = "price_detection"

Text1500 == <<"$", "1", ",", "5", "0", "0", ".", "0", "0">>

Text2k == <<"$", "2", "k">>

\* none of the three patterns matches anywhere in t
NoCurrencyPattern(t) == \A p \in 1..3 : ~FindFirst(p, t).found

\* C4: extract_bounty_value does not raise; it returns 0.0 for every text in
\* which no pattern matches, the empty text included; it returns 1500.0 for
\* "$1,500.00" and 2000.0 for "$2k".
C4_ExtractorContract ==
    extracted # NotRun
    => /\ ~extracted.raised
       /\ NoCurrencyPattern(text) => extracted.value = Amount(0)
       /\ text = Text1500 => extracted.value = Amount(1500)
       /\ text = Text2k => extracted.value = Amount(2000)

C4_Witness == text = Text1500 /\ extracted = [raised |-> FALSE, value |-> Amount(1500)]

\* the first of currency-prefixed, k-suffixed, suffixed-unit that matches in t
FirstMatching(t) ==
    CHOOSE p \in 1..3 :
        FindFirst(p, t).found /\ \A q \in 1..(p - 1) : ~FindFirst(q, t).found

\* the number written by the first match of that pattern
FirstMatchValue(t) == ToFloat(StripCommas(FindFirst(FirstMatching(t), t).group))

\* the letter k or K occurs in t
MentionsK(t) == \E i \in 1..Len(t) : t[i] \in {"k", "K"}

\* C5: for a text in which some pattern matches, the result is the number of
\* the first match of the first matching pattern, times 1000 exactly when k
\* or K occurs anywhere in the text.
C5_FirstMatchScaledByK ==
    (extracted # NotRun /\ ~NoCurrencyPattern(text))
    => extracted.value = IF MentionsK(text) THEN Times1000(FirstMatchValue(text))
                         ELSE FirstMatchValue(text)

\* "$500 ok": the k of "ok" scales the amount
C5_Witness ==
    /\ text = <<"$", "5", "0", "0", " ", "o", "k">>
    /\ extracted.value = Amount(500000)

\* the records of a list
Range(s) == {s[i] : i \in 1..Len(s)}

Parseable(b) == b.created_at.fmt \in {"iso", "isoZ"}

C7_UnparsedKept ==
    call.done
    => \A b \in Range(scraped) :
          b.created_at.fmt = "bad"
          => (b \in Range(call.recent) /\ resp.status # "error" /\ resp.http = 200)

\* an unparseable record kept next to an old one that is dropped
C7_Witness ==
    /\ call.done
    /\ Len(scraped) = 2
    /\ scraped[1].created_at = [fmt |-> "iso", t |-> FilterNow - (HoursThreshold + 1)]
    /\ scraped[2].created_at.fmt = "bad"
    /\ call.recent = <<scraped[2]>>
    /\ resp.bounty = scraped[2]

\* C8: the selected bounty is a recent record, no recent record has a greater
\* value, every recent record before it has a smaller value, the recent
\* records stand in the order of the scraped list, and the response carries
\* the selected bounty.
C8_StableMaximum ==
    (call.done /\ call.recent # <<>>)
    => /\ \E i \in 1..Len(call.recent) :
             /\ call.recent[i] = call.highest
             /\ \A j \in 1..Len(call.recent) :
                   ~ValueLess(call.highest.value, call.recent[j].value)
             /\ \A j \in 1..(i - 1) :
                   ValueLess(call.recent[j].value, call.highest.value)
       /\ call.recent = SelectSeq(scraped, LAMBDA b : b \in Range(call.recent))
       /\ resp.bounty = call.highest

\* two recent records tied for the maximum: the first one is selected
C8_Witness ==
    /\ call.done
    /\ Len(call.recent) = 2
    /\ call.recent[1].value = call.recent[2].value
    /\ call.recent[1].title # call.recent[2].title
    /\ call.highest = call.recent[1]
    /\ resp.status = "success"

\* nothing on the page gives a bounty record
NothingDetected(page) ==
    page.prices = <<>> /\ TextBounties(page, clock) = <<>>

\* what C9 says of one fetch and the list the scrape returns for it
ScrapeContract(fetched, result) ==
    /\ ~result.raised
    /\ result.value # <<>>
    /\ ~fetched.ok
       => result.value = << [title |-> <<"Demo: API Integration Project">>,
                             value |-> Amount(500), created_at |-> IsoNow(clock),
                             source |-> "fallback"] >>
    /\ (fetched.ok /\ NothingDetected(fetched.page))
       => result.value = << [title |-> <<"Demo: Build a React Dashboard">>,
                             value |-> Amount(750), created_at |-> IsoNow(clock),
                             source |-> "demo"] >>

\* C9: whatever the fetch gives, scrape_replit_bounties does not raise and
\* returns a non-empty list: exactly the fallback record (500.0, 'fallback')
\* when the fetch or the parse failed, exactly the demo record (750.0,
\* 'demo') when the page gave nothing; and no test, manual or cron call
\* answers "error" or "no_bounties": each answers 200 with a bounty.
C9_ScrapeNeverFails ==
    /\ \A fetched \in Fetches :
          ScrapeContract(fetched, scrape_replit_bounties(fetched, clock))
    /\ resp.endpoint \in Triggers \cup {"test"}
       => /\ resp.status \notin {"error", "no_bounties"}
          /\ resp.http = 200
          /\ resp.bounty # NoBounty

\* a failed fetch answered with a notification for the fallback record
C9_Witness ==
    /\ Triggered
    /\ resp.status = "success"
    /\ resp.bounty.source = "fallback"
    /\ resp.bounty.value = Amount(500)

\* two workers have both been past the dedup check with the same bounty id
\* and both have had their notification delivered, neither having added it
BothNotified ==
    \E v \in Workers, w \in Workers :
        /\ v # w
        /\ pc[v] = "add"
        /\ pc[w] = "add"
        /\ bounty_id(pending[v]) = bounty_id(pending[w])
        /\ bounty_id(pending[v]) \notin sent_bounties
        /\ CopiesIn(bounty_id(pending[v]), notified) = 2

\* C10: when calls are serialized, no two calls are past the dedup check at
\* once and no bounty id is notified twice.  (That interleaved calls do
\* notify one id twice is the reachable state C10_Witness.)
C10_SerializedNotifiesOnce ==
    hosting = "serialized"
    => /\ Cardinality({w \in Workers : pc[w] # "idle"}) <= 1
       /\ ~BothNotified
       /\ \A id \in BagToSet(notified) : CopiesIn(id, notified) = 1

C10_Witness == hosting = "concurrent" /\ BothNotified

ReadOnly == {"home", "test"}

\* a request leaves every key in sent_bounties, and a home or test_scraping
\* request leaves the set and the count of webhook POSTs as they were
SentOnlyGrows ==
    /\ sent_bounties \subseteq sent_bounties'
    /\ (clock' = clock + 1 /\ resp'.endpoint \in ReadOnly)
       => (sent_bounties' = sent_bounties /\ posts' = posts /\ notified' = notified)

\* no key has been notified successfully more than once, and the keys
\* notified are the keys of sent_bounties
NotifiedOncePerKey ==
    /\ \A k \in BagToSet(notified) : CopiesIn(k, notified) = 1
    /\ BagToSet(notified) = sent_bounties

\* C11: over any serialized sequence of home, test_scraping, manual_trigger
\* and cron_job calls in one process, sent_bounties only grows (no key is
\* ever removed, and home and test_scraping never change it), and each key
\* receives at most one successful webhook notification.
C11_GrowsAndNotifiesOnce ==
    [][SentOnlyGrows /\ NotifiedOncePerKey /\ NotifiedOncePerKey']_vars

\* two different keys were notified, one POST each, and a home or
\* test_scraping request after them left both in the set
C11_Witness ==
    /\ hosting = "serialized"
    /\ resp.endpoint \in ReadOnly
    /\ Cardinality(sent_bounties) = 2
    /\ posts = 2
    /\ NotifiedOncePerKey

====
